---------------------------- MODULE Spec2Model ----------------------------
(***************************************************************************)
(* A model of the arXiv paper store of problem2: the loader                *)
(* (load_data.py) that denormalises each paper into DynamoDB items and     *)
(* writes them in batches, and the query functions (api_server.py,         *)
(* query_papers.py) that read them back through the table and its three    *)
(* global secondary indexes.                                               *)
(*                                                                         *)
(* A Python str is modelled as a sequence of one-character strings, so     *)
(* that slicing, concatenation, case folding and the byte-wise ordering    *)
(* DynamoDB applies to sort keys are all computed, not assumed.            *)
(***************************************************************************)
EXTENDS Integers, Sequences, FiniteSets, TLC

(***************************************************************************)
(* Characters.  Ascii lists the printable ASCII characters in code order;  *)
(* its first element is the space, code 32.  The grave accent, code 96,    *)
(* cannot stand in a TLA+ string and is written "grave".                   *)
(***************************************************************************)
Ascii ==
  <<" ", "!", "\"", "#", "$", "%", "&", "'", "(", ")", "*", "+", ",", "-", ".", "/",
    "0", "1", "2", "3", "4", "5", "6", "7", "8", "9", ":", ";", "<", "=", ">", "?",
    "@", "A", "B", "C", "D", "E", "F", "G", "H", "I", "J", "K", "L", "M", "N", "O",
    "P", "Q", "R", "S", "T", "U", "V", "W", "X", "Y", "Z", "[", "\\", "]", "^", "_",
    "grave", "a", "b", "c", "d", "e", "f", "g", "h", "i", "j", "k", "l", "m", "n",
    "o", "p", "q", "r", "s", "t", "u", "v", "w", "x", "y", "z", "{", "|", "}", "~">>

AsciiSet == {Ascii[i] : i \in 1..Len(Ascii)}

OrdTable == [c \in AsciiSet |-> 31 + (CHOOSE i \in 1..Len(Ascii) : Ascii[i] = c)]

\* ord(c)
Ord(c) == OrdTable[c]

\* chr(n) for a printable code
Chr(n) == Ascii[n - 31]

\* str.lower() on one character
LowerChar(c) == IF Ord(c) >= 65 /\ Ord(c) <= 90 THEN Chr(Ord(c) + 32) ELSE c

\* str.lower()
Lower(s) == [i \in 1..Len(s) |-> LowerChar(s[i])]

\* the regular expression class \w on ASCII text: letters, digits, underscore
IsWordChar(c) ==
  \/ Ord(c) >= 48 /\ Ord(c) <= 57
  \/ Ord(c) >= 65 /\ Ord(c) <= 90
  \/ Ord(c) >= 97 /\ Ord(c) <= 122
  \/ c = "_"

Min(a, b) == IF a < b THEN a ELSE b

\* s[:n]
Take(s, n) == SubSeq(s, 1, IF n < Len(s) THEN n ELSE Len(s))

\* s < t in the byte order of the strings (Python str comparison, and the
\* order DynamoDB gives string sort keys)
StrLess(s, t) ==
  LET n    == IF Len(s) < Len(t) THEN Len(s) ELSE Len(t)
      diff == {k \in 1..n : s[k] # t[k]}
  IN  IF diff = {} THEN Len(s) < Len(t)
      ELSE LET k == CHOOSE d \in diff : \A e \in diff : d <= e
           IN  Ord(s[k]) < Ord(t[k])

StrLeq(s, t) == s = t \/ StrLess(s, t)

(***************************************************************************)
(* Keyword extraction (load_data.py).                                      *)
(***************************************************************************)
STOPWORDS == {
  <<"t","h","e">>, <<"a">>, <<"a","n">>, <<"a","n","d">>, <<"o","r">>,
  <<"b","u","t">>, <<"i","n">>, <<"o","n">>, <<"a","t">>, <<"t","o">>,
  <<"f","o","r">>, <<"o","f">>, <<"w","i","t","h">>, <<"b","y">>,
  <<"f","r","o","m">>, <<"u","p">>, <<"a","b","o","u","t">>,
  <<"i","n","t","o">>, <<"t","h","r","o","u","g","h">>,
  <<"d","u","r","i","n","g">>, <<"i","s">>, <<"a","r","e">>, <<"w","a","s">>,
  <<"w","e","r","e">>, <<"b","e">>, <<"b","e","e","n">>,
  <<"b","e","i","n","g">>, <<"h","a","v","e">>, <<"h","a","s">>,
  <<"h","a","d">>, <<"d","o">>, <<"d","o","e","s">>, <<"d","i","d">>,
  <<"w","i","l","l">>, <<"w","o","u","l","d">>, <<"c","o","u","l","d">>,
  <<"s","h","o","u","l","d">>, <<"m","a","y">>, <<"m","i","g","h","t">>,
  <<"c","a","n">>, <<"t","h","i","s">>, <<"t","h","a","t">>,
  <<"t","h","e","s","e">>, <<"t","h","o","s","e">>, <<"w","e">>,
  <<"o","u","r">>, <<"u","s","e">>, <<"u","s","i","n","g">>,
  <<"b","a","s","e","d">>, <<"a","p","p","r","o","a","c","h">>,
  <<"m","e","t","h","o","d">>, <<"p","a","p","e","r">>,
  <<"p","r","o","p","o","s","e">>, <<"p","r","o","p","o","s","e","d">>,
  <<"s","h","o","w">>
}

\* the default of extract_keywords' parameter top_n
DefaultTopN == 10

\* re.findall(r'\b\w+\b', s): the maximal runs of word characters of s, in
\* order.  cur is the run being read, acc the runs already closed.
RECURSIVE FindAllFrom(_, _, _, _)
FindAllFrom(s, i, cur, acc) ==
  IF i > Len(s) THEN (IF cur = <<>> THEN acc ELSE Append(acc, cur))
  ELSE IF IsWordChar(s[i]) THEN FindAllFrom(s, i + 1, Append(cur, s[i]), acc)
  ELSE FindAllFrom(s, i + 1, <<>>, IF cur = <<>> THEN acc ELSE Append(acc, cur))

FindAllWords(s) == FindAllFrom(s, 1, <<>>, <<>>)

\* the filter of the list comprehension: w not in STOPWORDS and len(w) > 2
KeepWordNoStop(w) == Len(w) > 2

KeepWord(w) == w \notin STOPWORDS /\ Len(w) > 2

\* the number of occurrences of w in the list ws
CountOf(ws, w) == Cardinality({i \in 1..Len(ws) : ws[i] = w})

\* the keys of Counter(ws) in insertion order: each word at its first occurrence
CounterKeys(ws) ==
  LET first == {i \in 1..Len(ws) : \A j \in 1..(i - 1) : ws[j] # ws[i]}
  IN  [k \in 1..Cardinality(first) |->
         ws[CHOOSE i \in first : Cardinality({j \in first : j < i}) = k - 1]]

\* Counter.most_common(n): the keys by descending count, equal counts in
\* insertion order (the sort is stable), cut to the first n; nothing for n <= 0.
RECURSIVE MostCommonFrom(_, _, _)
MostCommonFrom(ws, keys, n) ==
  IF n <= 0 \/ keys = <<>> THEN <<>>
  ELSE LET best == CHOOSE i \in 1..Len(keys) :
                     /\ \A j \in 1..Len(keys) : CountOf(ws, keys[j]) <= CountOf(ws, keys[i])
                     /\ \A j \in 1..(i - 1) : CountOf(ws, keys[j]) < CountOf(ws, keys[i])
           rest == [k \in 1..(Len(keys) - 1) |-> IF k < best THEN keys[k] ELSE keys[k + 1]]
       IN  <<keys[best]>> \o MostCommonFrom(ws, rest, n - 1)

\* a most_common whose sort is not stable: equal counts in reverse insertion order
MostCommonUnstable(ws, n) ==
  LET keys == CounterKeys(ws)
      rev  == [k \in 1..Len(keys) |-> keys[Len(keys) + 1 - k]]
  IN  MostCommonFrom(ws, rev, n)

most_common(ws, n) == MostCommonFrom(ws, CounterKeys(ws), n)

extract_keywords(text, top_n) ==
  LET words == FindAllWords(Lower(text))
      kept  == SelectSeq(words, KeepWord)
  IN  most_common(kept, top_n)

(***************************************************************************)
(* Inputs of the keyword extractor: texts made of up to MaxWords words of  *)
(* a small vocabulary (a word in two letter cases, a stopword, a word of   *)
(* two letters, other words) joined by spaces, and the sentence of the     *)
(* keyword-extraction scenario.                                            *)
(***************************************************************************)
MaxWords == 4

MaxTopN == 3

Vocabulary == <<
  <<"n","e","t">>,
  <<"N","e","t">>,
  <<"t","h","e">>,
  <<"a","b">>,
  <<"g","p","u">>,
  <<"c","p","u">> >>

ScenarioText ==
  <<"T", "h", "e", " ", "m", "o", "d", "e", "l", " ", "u", "s", "e", "s", " ", "a",
    "t", "t", "e", "n", "t", "i", "o", "n", " ", "b", "a", "s", "e", "d", " ", "t",
    "r", "a", "n", "s", "f", "o", "r", "m", "e", "r", "s", ".", " ", "T", "r", "a",
    "n", "s", "f", "o", "r", "m", "e", "r", "s", " ", "a", "r", "e", " ", "p", "o",
    "w", "e", "r", "f", "u", "l", ".">>

RECURSIVE JoinWords(_)
JoinWords(ix) ==
  IF ix = <<>> THEN <<>>
  ELSE IF Len(ix) = 1 THEN Vocabulary[ix[1]]
  ELSE Vocabulary[ix[1]] \o <<" ">> \o JoinWords(Tail(ix))

Texts ==
  {JoinWords(ix) : ix \in UNION {[1..n -> 1..Len(Vocabulary)] : n \in 0..MaxWords}}
    \cup {ScenarioText}

\* top_n as passed by a caller, or left to its default
TopNs == (0..MaxTopN) \cup {DefaultTopN}

VARIABLES
  papers,       \* main: the list json.load gives, one dict per paper
  pc,           \* main: "start", "created", "writing", "done" or "failed"
  error,        \* main: the exception that ended it, or "none"
  all_items,    \* main: the items of all papers, in the order they are put
  sent,         \* batch_writer: how many of all_items have been flushed
  table,        \* the DynamoDB table: its items, at most one per (PK, SK)
  report,       \* main: the numbers it prints
  rerun,        \* whether the loader has been started a second time
  first_run,    \* how the first run ended and the number of items it left
  resp,         \* the last query made: its arguments and what it returned
  text,         \* extract_keywords: the argument text
  top_n,        \* extract_keywords: the argument top_n
  keywords,     \* extract_keywords: the value returned
  kwpc          \* "idle"; "call" before extract_keywords has run, "return" after

loadvars == <<papers, pc, error, all_items, sent, table, report, rerun, first_run>>

kwvars == <<text, top_n, keywords, kwpc>>

vars == <<papers, pc, error, all_items, sent, table, report, rerun, first_run, resp,
          text, top_n, keywords, kwpc>>

NoReport == [total_items |-> 0]

NoRun == [ended |-> "none", items |-> 0]

NoResp == [op |-> "none"]

InitKw ==
  /\ text \in Texts
  /\ top_n \in TopNs
  /\ keywords = <<>>
  /\ kwpc = "call"
  /\ papers = <<>>
  /\ pc = "idle"
  /\ error = "none"
  /\ all_items = <<>>
  /\ sent = 0
  /\ table = {}
  /\ report = NoReport
  /\ rerun = FALSE
  /\ first_run = NoRun
  /\ resp = NoResp

ExtractKeywords ==
  /\ kwpc = "call"
  /\ keywords' = extract_keywords(text, top_n)
  /\ kwpc' = "return"
  /\ UNCHANGED <<text, top_n, resp>>
  /\ UNCHANGED loadvars

NextKw == ExtractKeywords

SpecKw == InitKw /\ [][NextKw]_vars

(***************************************************************************)
(* The papers of the input file.  A paper is a dict with the keys          *)
(* arxiv_id, title, authors, abstract, categories and published.  The      *)
(* pool crosses two ids (one of them sorting after "zzzzzzzz"), two        *)
(* publication days and two shapes of paper, and adds a paper that lists   *)
(* a category twice, as a JSON list may, a paper whose id holds the        *)
(* character "#", and a dict that has no title.                            *)
(***************************************************************************)
MaxPapers == 2

IdA == <<"a","1">>

IdT == <<"~","2">>

Ids == {IdA, IdT}

Day1 == <<"2","0","2","4","-","0","1","-","0","1">>

Day2 == <<"2","0","2","4","-","0","1","-","0","2">>

Published == {Day1 \o <<"T","0","9",":","0","0",":","0","0","Z">>, Day2 \o <<"T","0","9",":","0","0",":","0","0","Z">>}

CatAI == <<"c","s",".","A","I">>

CatCL == <<"c","s",".","C","L">>

Einstein == <<"A","."," ","E","i","n","s","t","e","i","n">>

Bohr == <<"N","."," ","B","o","h","r">>

Shapes == {
  [title |-> <<"N","e","t">>, authors |-> <<Einstein>>, categories |-> <<CatAI>>,
   abstract |-> <<"n","e","t"," ","t","h","e">>],
  [title |-> <<"G","p","u"," ","n","e","t">>, authors |-> <<Einstein, Bohr>>,
   categories |-> <<CatAI, CatCL>>, abstract |-> <<"G","p","u"," ","a","b"," ","n","e","t"," ","g","p","u">>] }

RepeatedCategoryPaper ==
  [arxiv_id |-> IdA, published |-> Day1 \o <<"T","0","9",":","0","0",":","0","0","Z">>, title |-> <<"C","p","u">>,
   authors |-> <<Bohr>>, categories |-> <<CatCL, CatCL>>, abstract |-> <<>>]

HashIdPaper ==
  [arxiv_id |-> <<"b","#","1">>, published |-> Day2 \o <<"T","0","9",":","0","0",":","0","0","Z">>,
   title |-> <<"A","b">>, authors |-> <<Bohr>>, categories |-> <<CatAI>>, abstract |-> <<>>]

UntitledPaper ==
  [arxiv_id |-> IdT, published |-> Day2 \o <<"T","0","9",":","0","0",":","0","0","Z">>,
   authors |-> <<Bohr>>, categories |-> <<CatCL>>, abstract |-> <<>>]

Papers ==
  {[arxiv_id |-> id, published |-> pub, title |-> sh.title, authors |-> sh.authors,
    categories |-> sh.categories, abstract |-> sh.abstract] :
     id \in Ids, pub \in Published, sh \in Shapes}
    \cup {RepeatedCategoryPaper, HashIdPaper, UntitledPaper}

PaperLists == UNION {[1..n -> Papers] : n \in 0..MaxPapers}

(***************************************************************************)
(* transform_paper (load_data.py): the items of one paper.                 *)
(***************************************************************************)
\* the keys transform_paper reads as paper[...]: the paper-id item, which is
\* always built, reads every one of them
RequiredKeys == {"arxiv_id", "published", "title", "authors", "abstract", "categories"}

\* whether transform_paper(paper) ends in a KeyError
RaisesKeyError(paper) == ~(RequiredKeys \subseteq DOMAIN paper)

\* the prefixes of the composite keys
CATEGORY == <<"C","A","T","E","G","O","R","Y","#">>

ARXIV == <<"A","R","X","I","V","#">>

AUTHOR == <<"A","U","T","H","O","R","#">>

KEYWORD == <<"K","E","Y","W","O","R","D","#">>

Hash == <<"#">>

\* paper['published'][:10]
published_date(paper) == Take(paper.published, 10)

category_item(paper, kws, category) ==
  [PK |-> CATEGORY \o category,
   SK |-> published_date(paper) \o Hash \o paper.arxiv_id,
   arxiv_id |-> paper.arxiv_id,
   title |-> paper.title,
   authors |-> paper.authors,
   abstract |-> paper.abstract,
   categories |-> paper.categories,
   keywords |-> kws,
   published |-> paper.published,
   GSI2PK |-> ARXIV \o paper.arxiv_id,
   GSI2SK |-> CATEGORY \o category]

author_item(paper, author) ==
  [PK |-> ARXIV \o paper.arxiv_id,
   SK |-> AUTHOR \o author \o Hash \o published_date(paper),
   GSI1PK |-> AUTHOR \o author,
   GSI1SK |-> published_date(paper) \o Hash \o paper.arxiv_id,
   arxiv_id |-> paper.arxiv_id,
   title |-> paper.title,
   authors |-> paper.authors,
   categories |-> paper.categories,
   published |-> paper.published]

keyword_item(paper, kw) ==
  [PK |-> ARXIV \o paper.arxiv_id,
   SK |-> KEYWORD \o kw \o Hash \o published_date(paper),
   GSI3PK |-> KEYWORD \o kw,
   GSI3SK |-> published_date(paper) \o Hash \o paper.arxiv_id,
   arxiv_id |-> paper.arxiv_id,
   title |-> paper.title,
   authors |-> paper.authors,
   categories |-> paper.categories,
   published |-> paper.published]

paper_id_item(paper, kws) ==
  [PK |-> ARXIV \o paper.arxiv_id,
   SK |-> ARXIV \o paper.arxiv_id,
   GSI2PK |-> ARXIV \o paper.arxiv_id,
   GSI2SK |-> ARXIV \o paper.arxiv_id,
   arxiv_id |-> paper.arxiv_id,
   title |-> paper.title,
   authors |-> paper.authors,
   abstract |-> paper.abstract,
   categories |-> paper.categories,
   keywords |-> kws,
   published |-> paper.published]

\* the category loop run over the distinct categories only
CategoryItemsDedup(paper, kws) ==
  LET cs == paper.categories
      firsts == SelectSeq([i \in 1..Len(cs) |-> <<i, cs[i]>>],
                          LAMBDA e : \A j \in 1..(e[1] - 1) : cs[j] # e[2])
  IN  [i \in 1..Len(firsts) |-> category_item(paper, kws, firsts[i][2])]

category_items(paper, kws) ==
  [i \in 1..Len(paper.categories) |-> category_item(paper, kws, paper.categories[i])]

author_items(paper) ==
  [i \in 1..Len(paper.authors) |-> author_item(paper, paper.authors[i])]

keyword_items(paper, kws) ==
  [i \in 1..Len(kws) |-> keyword_item(paper, kws[i])]

transform_paper(paper) ==
  LET kws == extract_keywords(paper.abstract, DefaultTopN)
  IN  category_items(paper, kws) \o author_items(paper) \o keyword_items(paper, kws)
        \o <<paper_id_item(paper, kws)>>

\* list(chain.from_iterable(transform_paper(p) for p in ps))
RECURSIVE ChainItems(_)
ChainItems(ps) ==
  IF ps = <<>> THEN <<>> ELSE transform_paper(Head(ps)) \o ChainItems(Tail(ps))

(***************************************************************************)
(* The table and the batch writer.  The table's key schema is (PK, SK).    *)
(* PutItem replaces the item stored under the same key.  batch_writer      *)
(* buffers the puts and sends them FlushAmount at a time as one            *)
(* BatchWriteItem request (25 in boto3; scaled down here so that a load of *)
(* a few papers takes several requests); DynamoDB rejects a request that   *)
(* names the same key twice with a ValidationException.                    *)
(***************************************************************************)
FlushAmount == 5

Key(item) == <<item.PK, item.SK>>

\* PutItem
Put(tbl, item) == {i \in tbl : Key(i) # Key(item)} \cup {item}

RECURSIVE PutAll(_, _)
PutAll(tbl, items) ==
  IF items = <<>> THEN tbl ELSE PutAll(Put(tbl, Head(items)), Tail(items))

HasDuplicateKeys(items) ==
  \E i, j \in 1..Len(items) : i < j /\ Key(items[i]) = Key(items[j])

\* the next request of the batch writer: the oldest FlushAmount buffered puts
NextChunk == SubSeq(all_items, sent + 1, Min(sent + FlushAmount, Len(all_items)))

(***************************************************************************)
(* Reading the table.  Query returns the items of one partition of the     *)
(* table or of an index in the order of their sort keys; an index holds    *)
(* the items that carry both of its key attributes.  Scan reads the whole  *)
(* table partition by partition, the partitions in an order the caller     *)
(* cannot choose.                                                          *)
(***************************************************************************)
TableKeys == [pk |-> "PK", sk |-> "SK"]

AuthorIndex == [pk |-> "GSI1PK", sk |-> "GSI1SK"]

KeywordIndex == [pk |-> "GSI3PK", sk |-> "GSI3SK"]

PaperIdIndex == [pk |-> "GSI2PK", sk |-> "GSI2SK"]

InIndex(item, ix) == ix.pk \in DOMAIN item /\ ix.sk \in DOMAIN item

PartitionOf(tbl, ix, pk) == {i \in tbl : InIndex(i, ix) /\ i[ix.pk] = pk}

\* the items of S by ascending sort key
RECURSIVE SortAsc(_, _)
SortAsc(S, sk) ==
  IF S = {} THEN <<>>
  ELSE LET m == CHOOSE x \in S : \A y \in S : ~StrLess(y[sk], x[sk])
       IN  <<m>> \o SortAsc(S \ {m}, sk)

Reverse(q) == [i \in 1..Len(q) |-> q[Len(q) + 1 - i]]

\* Query with KeyConditionExpression Key(pk).eq(pk) and ScanIndexForward
QueryEq(tbl, ix, pk, forward) ==
  LET asc == SortAsc(PartitionOf(tbl, ix, pk), ix.sk)
  IN  IF forward THEN asc ELSE Reverse(asc)

\* the items an ascending Query of the partition may list first: those of the
\* least sort key (an index may hold several items under one key)
QueryFirsts(tbl, ix, pk) ==
  LET S == PartitionOf(tbl, ix, pk)
  IN  {x \in S : \A y \in S : ~StrLess(y[ix.sk], x[ix.sk])}

\* the items an ascending Query of the partition may list last
QueryLasts(tbl, ix, pk) ==
  LET S == PartitionOf(tbl, ix, pk)
  IN  {x \in S : \A y \in S : ~StrLess(x[ix.sk], y[ix.sk])}

\* Query with Key(pk).eq(pk) & Key(sk).between(lo, hi), ascending
QueryBetween(tbl, ix, pk, lo, hi) ==
  SelectSeq(QueryEq(tbl, ix, pk, TRUE),
            LAMBDA i : StrLeq(lo, i[ix.sk]) /\ StrLeq(i[ix.sk], hi))

\* the items of S listed by ascending (PK, SK).  A Scan gives its items in no
\* order a caller can rely on; where only the items matter they are listed so.
RECURSIVE ListByKey(_)
ListByKey(S) ==
  IF S = {} THEN <<>>
  ELSE LET m == CHOOSE x \in S : \A y \in S :
                  /\ ~StrLess(y.PK, x.PK)
                  /\ y.PK = x.PK => ~StrLess(y.SK, x.SK)
       IN  <<m>> \o ListByKey(S \ {m})

\* Scan reads the table partition by partition, the partitions in an order
\* the caller cannot choose, each partition by ascending sort key
RECURSIVE ConcatPartitions(_, _)
ConcatPartitions(tbl, pks) ==
  IF pks = <<>> THEN <<>>
  ELSE SortAsc(PartitionOf(tbl, TableKeys, Head(pks)), "SK")
         \o ConcatPartitions(tbl, Tail(pks))

ScanOrders(tbl) ==
  LET pks == {i.PK : i \in tbl}
      n   == Cardinality(pks)
  IN  {ConcatPartitions(tbl, f) :
         f \in {g \in [1..n -> pks] : \A a, b \in 1..n : a # b => g[a] # g[b]}}

\* the sets of items a Scan with Limit=n may evaluate: the first n it meets
ScanPrefixes(tbl, n) == {{o[k] : k \in 1..Min(n, Len(o))} : o \in ScanOrders(tbl)}

\* whether the string sub occurs in the string s
Contains(s, sub) ==
  \E k \in 0..(Len(s) - Len(sub)) : SubSeq(s, k + 1, k + Len(sub)) = sub

\* Attr("authors").contains(name): authors is a list, name is to be a member
AuthorsContains(item, name) ==
  "authors" \in DOMAIN item /\ \E k \in 1..Len(item.authors) : item.authors[k] = name

\* Attr("title").contains(keyword): title is a string, keyword is to occur in it
TitleContains(item, keyword) ==
  "title" \in DOMAIN item /\ Contains(item.title, keyword)

(***************************************************************************)
(* int(limit) and the validation of Limit.  A limit of the HTTP query      *)
(* string is a str; botocore refuses a Limit below 1 with a                *)
(* ParamValidationError before any request is sent.                        *)
(***************************************************************************)
IsDigit(c) == c \in AsciiSet /\ Ord(c) >= 48 /\ Ord(c) <= 57

RECURSIVE DigitsValue(_)
DigitsValue(ds) ==
  IF ds = <<>> THEN 0
  ELSE 10 * DigitsValue(SubSeq(ds, 1, Len(ds) - 1)) + (Ord(ds[Len(ds)]) - 48)

\* int(s) for a str s: ok is FALSE where int raises ValueError
ParseInt(s) ==
  LET signed == s # <<>> /\ s[1] \in {"-", "+"}
      digits == IF signed THEN Tail(s) ELSE s
      ok     == digits # <<>> /\ \A k \in 1..Len(digits) : IsDigit(digits[k])
  IN  [ok |-> ok,
       value |-> IF ~ok THEN 0
                 ELSE IF signed /\ s[1] = "-" THEN 0 - DigitsValue(digits)
                 ELSE DigitsValue(digits)]

\* what a query function gives its caller: a list of items, or an exception;
\* calls lists the requests that reached DynamoDB
Returned(items, calls) ==
  [status |-> "ok", exception |-> "none", items |-> items, calls |-> calls]

Raised(exception, calls) ==
  [status |-> "error", exception |-> exception, items |-> <<>>, calls |-> calls]

(***************************************************************************)
(* api_server.py                                                           *)
(***************************************************************************)
\* query_recent_papers without ScanIndexForward=False
QueryRecentPapersForward(tbl, category, limit) ==
  LET n == ParseInt(limit)
  IN  IF ~n.ok THEN Raised("ValueError", <<>>)
      ELSE IF n.value < 1 THEN Raised("ParamValidationError", <<>>)
      ELSE Returned(Take(QueryEq(tbl, TableKeys, CATEGORY \o category, TRUE), n.value),
                    <<"query">>)

query_recent_papers(tbl, category, limit) ==
  LET n == ParseInt(limit)
  IN  IF ~n.ok THEN Raised("ValueError", <<>>)
      ELSE IF n.value < 1 THEN Raised("ParamValidationError", <<>>)
      ELSE Returned(Take(QueryEq(tbl, TableKeys, CATEGORY \o category, FALSE), n.value),
                    <<"query">>)

\* the try block of query_papers_by_author; gsi_fails: the index query raises
author_index_query(tbl, author_name, limit, gsi_fails) ==
  LET n == ParseInt(limit)
  IN  IF ~n.ok THEN Raised("ValueError", <<>>)
      ELSE IF n.value < 1 THEN Raised("ParamValidationError", <<>>)
      ELSE IF gsi_fails THEN Raised("ClientError", <<"query">>)
      ELSE Returned(Take(QueryEq(tbl, AuthorIndex, AUTHOR \o author_name, TRUE), n.value),
                    <<"query">>)

\* query_papers_by_author: any exception of the try block leads to the scan,
\* which has no Limit
query_papers_by_author(tbl, author_name, limit, gsi_fails) ==
  LET tried == author_index_query(tbl, author_name, limit, gsi_fails)
  IN  IF tried.status = "ok" THEN tried
      ELSE Returned(ListByKey({i \in tbl : AuthorsContains(i, author_name)}),
                    tried.calls \o <<"scan">>)

\* the try block of search_papers_by_keyword
keyword_index_query(tbl, keyword, limit, gsi_fails) ==
  LET n == ParseInt(limit)
  IN  IF ~n.ok THEN Raised("ValueError", <<>>)
      ELSE IF n.value < 1 THEN Raised("ParamValidationError", <<>>)
      ELSE IF gsi_fails THEN Raised("ClientError", <<"query">>)
      ELSE Returned(Take(QueryEq(tbl, KeywordIndex, KEYWORD \o Lower(keyword), TRUE),
                         n.value),
                    <<"query">>)

\* the arguments with which the try block of search_papers_by_keyword raises
\* and the scan of the except block is sent
KeywordScanSent(keyword, limit, gsi_fails) ==
  ParseInt(limit).ok /\ ParseInt(limit).value >= 1 /\ gsi_fails

\* search_papers_by_keyword: the scan of the except block evaluates the first
\* int(limit) items it meets (the set evaluated) and keeps those whose title
\* contains the keyword
search_papers_by_keyword(tbl, keyword, limit, gsi_fails, evaluated) ==
  LET tried == keyword_index_query(tbl, keyword, limit, gsi_fails)
      n     == ParseInt(limit)
  IN  IF tried.status = "ok" THEN tried
      ELSE IF ~n.ok THEN Raised("ValueError", tried.calls)
      ELSE IF n.value < 1 THEN Raised("ParamValidationError", tried.calls)
      ELSE Returned(ListByKey({i \in evaluated : TitleContains(i, keyword)}),
                    tried.calls \o <<"scan">>)

\* query_paper_by_id: get_item on the key (ARXIV#id, ARXIV#id); the item, or
\* None (here: no item) where the table holds none under the key
query_paper_by_id(tbl, paper_id) ==
  LET key == ARXIV \o paper_id
  IN  Returned(ListByKey({i \in tbl : i.PK = key /\ i.SK = key}), <<"get_item">>)

\* a character that the Latin-1 encoding does not have
NonLatin1Char == "U+4F60"

\* str.encode('latin-1', 'strict') raises UnicodeEncodeError
RaisesUnicodeEncodeError(s) == \E k \in 1..Len(s) : s[k] \notin AsciiSet

ServerErrorPrefix ==
  <<"S", "e", "r", "v", "e", "r", " ", "e", "r", "r", "o", "r", ":", " ">>

InvalidLiteralPrefix ==
  <<"i", "n", "v", "a", "l", "i", "d", " ", "l", "i", "t", "e", "r", "a", "l",
    " ", "f", "o", "r", " ", "i", "n", "t", "(", ")", " ", "w", "i", "t", "h",
    " ", "b", "a", "s", "e", " ", "1", "0", ":", " ", "'">>

ParameterValidationFailed ==
  <<"P", "a", "r", "a", "m", "e", "t", "e", "r", " ", "v", "a", "l", "i", "d",
    "a", "t", "i", "o", "n", " ", "f", "a", "i", "l", "e", "d">>

\* str(e) of the exception a query function raised; int's ValueError quotes
\* its argument
ExceptionText(exception, limit) ==
  IF exception = "ValueError" THEN InvalidLiteralPrefix \o limit \o <<"'">>
  ELSE ParameterValidationFailed

\* send_error: the status line, with the message in it, is encoded as Latin-1
\* before anything is written.  The fixed messages of the 400 and 404 answers
\* are ASCII; they are passed as the empty string.
send_error(code, message) ==
  IF RaisesUnicodeEncodeError(message)
    THEN [code |-> 0, raised |-> "UnicodeEncodeError"]
    ELSE [code |-> code, raised |-> "none"]

send_json == [code |-> 200, raised |-> "none"]

\* do_GET once the parameters are there: out is what the query function of the
\* endpoint gave; by_id tells the endpoint /papers/id, which answers 404 for None
do_GET(out, limit, by_id) ==
  IF out.status = "error"
    THEN send_error(500, ServerErrorPrefix \o ExceptionText(out.exception, limit))
  ELSE IF by_id /\ out.items = <<>> THEN send_error(404, <<>>)
  ELSE send_json

(***************************************************************************)
(* query_papers.py                                                         *)
(***************************************************************************)
\* the dict each query function of query_papers.py makes of an item
Projection(i) ==
  [arxiv_id |-> i.arxiv_id, title |-> i.title, authors |-> i.authors,
   published |-> i.published, categories |-> i.categories]

ProjectAll(items) == [k \in 1..Len(items) |-> Projection(items[k])]

\* limit is an int here (argparse's type=int)
query_recent_in_category(tbl, category, limit) ==
  IF limit < 1 THEN Raised("ParamValidationError", <<>>)
  ELSE Returned(ProjectAll(Take(QueryEq(tbl, TableKeys, CATEGORY \o category, FALSE),
                                limit)),
                <<"query">>)

\* the upper bound of the sort-key range: end_date, '#' and eight letters z
RangeEndSuffix == <<"#", "z", "z", "z", "z", "z", "z", "z", "z">>

\* DynamoDB rejects a BETWEEN whose lower bound is above its upper bound
query_papers_in_date_range(tbl, category, start_date, end_date) ==
  LET lo == start_date \o Hash
      hi == end_date \o RangeEndSuffix
  IN  IF StrLess(hi, lo) THEN Raised("ValidationException", <<"query">>)
      ELSE Returned(ProjectAll(QueryBetween(tbl, TableKeys, CATEGORY \o category, lo, hi)),
                    <<"query">>)

query_papers_by_keyword(tbl, keyword, limit) ==
  IF limit < 1 THEN Raised("ParamValidationError", <<>>)
  ELSE Returned(ProjectAll(Take(QueryEq(tbl, KeywordIndex, KEYWORD \o Lower(keyword),
                                        FALSE),
                                limit)),
                <<"query">>)

\* get_paper_by_id taking the last item of the PaperIdIndex query
GetPaperByIdLast(tbl, arxiv_id, first) ==
  LET lasts == QueryLasts(tbl, PaperIdIndex, ARXIV \o arxiv_id)
  IN  IF lasts = {} THEN Returned(<<>>, <<"query">>)
      ELSE Returned(<<Projection(CHOOSE x \in lasts : TRUE)>>, <<"query">>)

\* get_paper_by_id: the first item of the PaperIdIndex query of partition
\* ARXIV#id, or no result where the query gives no item; first is the item the
\* query lists first
get_paper_by_id(tbl, arxiv_id, first) ==
  IF PartitionOf(tbl, PaperIdIndex, ARXIV \o arxiv_id) = {}
    THEN Returned(<<>>, <<"query">>)
    ELSE Returned(<<Projection(first)>>, <<"query">>)

(***************************************************************************)
(* The arguments the queries are made with.                                *)
(***************************************************************************)
QueryIds == {IdA, IdT, <<"z","9">>}

Paths == {"/papers/recent", "/papers/author", "/papers/id", "/papers/search"}

QueryCategories == {CatAI, CatCL}

QueryAuthors == {Einstein, Bohr}

QueryKeywords == {<<"n","e","t">>, <<"N","e","t">>}

QueryDates == {Day1, Day2}

\* limit as the HTTP query string gives it (do_GET's default 10 parses alike)
ApiLimits == {<<"-","1">>, <<"0">>, <<"1">>, <<"x">>, <<"1","0">>, <<NonLatin1Char>>}

\* --limit as argparse gives it; 20 is its default
CliLimits == {-1, 0, 1, 20}

(***************************************************************************)
(* main (load_data.py).                                                    *)
(***************************************************************************)
Init ==
  /\ papers \in PaperLists
  /\ pc = "start"
  /\ error = "none"
  /\ all_items = <<>>
  /\ sent = 0
  /\ table = {}
  /\ report = NoReport
  /\ rerun = FALSE
  /\ first_run = NoRun
  /\ resp = NoResp
  /\ text = <<>>
  /\ top_n = DefaultTopN
  /\ keywords = <<>>
  /\ kwpc = "idle"

\* create_table: an existing table is deleted, then the table is created empty
CreateTable ==
  /\ pc = "start"
  /\ table' = {}
  /\ pc' = "created"
  /\ UNCHANGED <<papers, error, all_items, sent, report, rerun, first_run, resp>>
  /\ UNCHANGED kwvars

\* main, lines 176-179: the papers are read and every one is transformed.  The
\* KeyError of one paper leaves main before batch_write is called.
TransformAll ==
  /\ pc = "created"
  /\ IF \E k \in 1..Len(papers) : RaisesKeyError(papers[k])
       THEN /\ pc' = "failed"
            /\ error' = "KeyError"
            /\ UNCHANGED all_items
       ELSE /\ all_items' = ChainItems(papers)
            /\ pc' = "writing"
            /\ UNCHANGED error
  /\ sent' = 0
  /\ UNCHANGED <<papers, table, report, rerun, first_run, resp>>
  /\ UNCHANGED kwvars

\* batch_write: one BatchWriteItem request.  A key named twice in it is rejected
\* and the exception leaves main.
Flush ==
  /\ pc = "writing"
  /\ sent < Len(all_items)
  /\ IF HasDuplicateKeys(NextChunk)
       THEN /\ pc' = "failed"
            /\ error' = "ValidationException"
            /\ UNCHANGED <<table, sent>>
       ELSE /\ table' = PutAll(table, NextChunk)
            /\ sent' = sent + Len(NextChunk)
            /\ UNCHANGED <<pc, error>>
  /\ UNCHANGED <<papers, all_items, report, rerun, first_run, resp>>
  /\ UNCHANGED kwvars

\* main, lines 182-200: the report.  total_items / num_papers raises
\* ZeroDivisionError for an empty input file.
Report ==
  /\ pc = "writing"
  /\ sent = Len(all_items)
  /\ IF Len(papers) = 0
       THEN /\ pc' = "failed"
            /\ error' = "ZeroDivisionError"
            /\ UNCHANGED report
       ELSE /\ pc' = "done"
            /\ report' = [num_papers |-> Len(papers), total_items |-> Len(all_items)]
            /\ UNCHANGED error
  /\ UNCHANGED <<papers, all_items, sent, table, rerun, first_run, resp>>
  /\ UNCHANGED kwvars

\* a query is made once the loader has ended, one query at a time
Loaded == pc \in {"done", "failed"} /\ resp = NoResp

\* the loader is started again on the same input file
Rerun ==
  /\ Loaded
  /\ ~rerun
  /\ rerun' = TRUE
  /\ first_run' = [ended |-> pc, items |-> Cardinality(table)]
  /\ pc' = "start"
  /\ error' = "none"
  /\ all_items' = <<>>
  /\ sent' = 0
  /\ report' = NoReport
  /\ UNCHANGED <<papers, table, resp>>
  /\ UNCHANGED kwvars

ApiRecent ==
  /\ Loaded
  /\ \E category \in QueryCategories, limit \in ApiLimits :
       resp' = [op |-> "recent", impl |-> "api", category |-> category, limit |-> limit,
                out |-> query_recent_papers(table, category, limit),
                http |-> do_GET(query_recent_papers(table, category, limit), limit, FALSE)]
  /\ UNCHANGED loadvars
  /\ UNCHANGED kwvars

ApiByAuthor ==
  /\ Loaded
  /\ \E name \in QueryAuthors, limit \in ApiLimits, gsi_fails \in BOOLEAN :
       resp' = [op |-> "author", impl |-> "api", name |-> name, limit |-> limit,
                gsi_fails |-> gsi_fails,
                out |-> query_papers_by_author(table, name, limit, gsi_fails),
                http |-> do_GET(query_papers_by_author(table, name, limit, gsi_fails),
                                limit, FALSE)]
  /\ UNCHANGED loadvars
  /\ UNCHANGED kwvars

ApiSearch ==
  /\ Loaded
  /\ \E keyword \in QueryKeywords, limit \in ApiLimits, gsi_fails \in BOOLEAN :
       \E evaluated \in (IF KeywordScanSent(keyword, limit, gsi_fails)
                           THEN ScanPrefixes(table, ParseInt(limit).value) ELSE {{}}) :
         resp' = [op |-> "keyword", impl |-> "api", keyword |-> keyword, limit |-> limit,
                  gsi_fails |-> gsi_fails,
                  out |-> search_papers_by_keyword(table, keyword, limit, gsi_fails,
                                                   evaluated),
                  http |-> do_GET(search_papers_by_keyword(table, keyword, limit,
                                                           gsi_fails, evaluated),
                                  limit, FALSE)]
  /\ UNCHANGED loadvars
  /\ UNCHANGED kwvars

ApiById ==
  /\ Loaded
  /\ \E paper_id \in QueryIds :
       resp' = [op |-> "id", impl |-> "api", id |-> paper_id,
                out |-> query_paper_by_id(table, paper_id),
                http |-> do_GET(query_paper_by_id(table, paper_id), <<>>, TRUE)]
  /\ UNCHANGED loadvars
  /\ UNCHANGED kwvars

\* do_GET for a known path without its required parameter: 400, and no query
\* function is called
ApiMissingParameter ==
  /\ Loaded
  /\ \E path \in Paths :
       resp' = [op |-> "missing", impl |-> "api", path |-> path,
                out |-> Returned(<<>>, <<>>), http |-> send_error(400, <<>>)]
  /\ UNCHANGED loadvars
  /\ UNCHANGED kwvars

\* do_GET for any other path: 404
ApiUnknownPath ==
  /\ Loaded
  /\ resp' = [op |-> "unknown", impl |-> "api", path |-> "/",
              out |-> Returned(<<>>, <<>>), http |-> send_error(404, <<>>)]
  /\ UNCHANGED loadvars
  /\ UNCHANGED kwvars

CliById ==
  /\ Loaded
  /\ \E arxiv_id \in QueryIds :
       LET firsts == QueryFirsts(table, PaperIdIndex, ARXIV \o arxiv_id)
       IN  \E first \in (IF firsts = {} THEN {<<>>} ELSE firsts) :
             resp' = [op |-> "id", impl |-> "cli", id |-> arxiv_id,
                      out |-> get_paper_by_id(table, arxiv_id, first)]
  /\ UNCHANGED loadvars
  /\ UNCHANGED kwvars

CliRecent ==
  /\ Loaded
  /\ \E category \in QueryCategories, limit \in CliLimits :
       resp' = [op |-> "recent", impl |-> "cli", category |-> category, limit |-> limit,
                out |-> query_recent_in_category(table, category, limit)]
  /\ UNCHANGED loadvars
  /\ UNCHANGED kwvars

CliDateRange ==
  /\ Loaded
  /\ \E category \in QueryCategories, start_date \in QueryDates, end_date \in QueryDates :
       resp' = [op |-> "daterange", impl |-> "cli", category |-> category,
                start_date |-> start_date, end_date |-> end_date,
                out |-> query_papers_in_date_range(table, category, start_date, end_date)]
  /\ UNCHANGED loadvars
  /\ UNCHANGED kwvars

CliKeyword ==
  /\ Loaded
  /\ \E keyword \in QueryKeywords, limit \in CliLimits :
       resp' = [op |-> "keyword", impl |-> "cli", keyword |-> keyword, limit |-> limit,
                gsi_fails |-> FALSE,
                out |-> query_papers_by_keyword(table, keyword, limit)]
  /\ UNCHANGED loadvars
  /\ UNCHANGED kwvars

\* the caller has taken the result of the query
QueryDone ==
  /\ resp # NoResp
  /\ resp' = NoResp
  /\ UNCHANGED loadvars
  /\ UNCHANGED kwvars

\* the loader alone, run and run again
NextLoad ==
  \/ CreateTable
  \/ TransformAll
  \/ Flush
  \/ Report
  \/ Rerun

SpecLoad == Init /\ [][NextLoad]_vars

\* the loader run once, and the queries made of what it has stored
Next ==
  \/ CreateTable
  \/ TransformAll
  \/ Flush
  \/ Report
  \/ ApiRecent
  \/ ApiByAuthor
  \/ ApiSearch
  \/ ApiById
  \/ ApiMissingParameter
  \/ ApiUnknownPath
  \/ CliById
  \/ CliRecent
  \/ CliDateRange
  \/ CliKeyword
  \/ QueryDone

Spec == Init /\ [][Next]_vars

(***************************************************************************)
(* What the extractor is to compute, stated on the text itself: a run is a *)
(* maximal stretch of word characters, a token is a run lower-cased.       *)
(***************************************************************************)
Runs(s) ==
  {r \in (1..Len(s)) \X (1..Len(s)) :
     /\ r[1] <= r[2]
     /\ \A k \in r[1]..r[2] : IsWordChar(s[k])
     /\ r[1] = 1 \/ ~IsWordChar(s[r[1] - 1])
     /\ r[2] = Len(s) \/ ~IsWordChar(s[r[2] + 1])}

TokenAt(s, r) == Lower(SubSeq(s, r[1], r[2]))

\* the tokens of s in the order of their position in s
TokensOf(s) ==
  LET rs == Runs(s)
  IN  [k \in 1..Cardinality(rs) |->
         TokenAt(s, CHOOSE r \in rs : Cardinality({q \in rs : q[1] < r[1]}) = k - 1)]

\* the tokens that are no stopword and have three characters or more
Significant(toks) ==
  {w \in {toks[k] : k \in 1..Len(toks)} : w \notin STOPWORDS /\ Len(w) >= 3}

Freq(toks, w) == Cardinality({k \in 1..Len(toks) : toks[k] = w})

FirstPos(toks, w) ==
  CHOOSE k \in 1..Len(toks) : toks[k] = w /\ \A j \in 1..(k - 1) : toks[j] # w

\* w ranks before u: more frequent, or as frequent and met earlier
RanksBefore(toks, w, u) ==
  \/ Freq(toks, w) > Freq(toks, u)
  \/ Freq(toks, w) = Freq(toks, u) /\ FirstPos(toks, w) < FirstPos(toks, u)

\* C9: extract_keywords(text, top_n) is duplicate-free, has at most top_n
\* entries, each a lower-cased token of the text that is no stopword and has at
\* least 3 characters; it holds the top_n highest ranked such tokens (all of
\* them when there are fewer), by descending frequency, equally frequent tokens
\* in the order of their first occurrence in the text.
KeywordsAreTopRanked ==
  kwpc = "return" =>
    LET toks == TokensOf(text)
        sig  == Significant(toks)
        n    == Len(keywords)
        got  == {keywords[i] : i \in 1..n}
    IN  /\ \A i, j \in 1..n : i # j => keywords[i] # keywords[j]
        /\ n <= top_n
        /\ \A i \in 1..n :
             /\ Lower(keywords[i]) = keywords[i]
             /\ keywords[i] \notin STOPWORDS
             /\ Len(keywords[i]) >= 3
        /\ got \subseteq sig
        /\ n = (IF top_n < Cardinality(sig) THEN top_n ELSE Cardinality(sig))
        /\ \A i, j \in 1..n : i < j => RanksBefore(toks, keywords[i], keywords[j])
        /\ \A w \in sig \ got : \A i \in 1..n : RanksBefore(toks, keywords[i], w)

\* C9 witness: a call returned with a cut list: three significant tokens in the
\* text, the two returned equally frequent, and a token that was filtered out.
KeywordsCutReached ==
  /\ kwpc = "return"
  /\ top_n = 2
  /\ Len(keywords) = 2
  /\ LET toks == TokensOf(text)
     IN  /\ Cardinality(Significant(toks)) = 3
         /\ Freq(toks, keywords[1]) = Freq(toks, keywords[2])
         /\ \E k \in 1..Len(toks) : toks[k] \in STOPWORDS \/ Len(toks[k]) < 3

ScenarioCalled == kwpc = "return" /\ text = ScenarioText /\ top_n = DefaultTopN

\* C10 as stated: the scenario sentence yields transformers, model, attention,
\* powerful ("uses" taken to be a stopword).
ScenarioYieldsFourKeywords ==
  ScenarioCalled =>
    keywords = << <<"t","r","a","n","s","f","o","r","m","e","r","s">>,
                  <<"m","o","d","e","l">>,
                  <<"a","t","t","e","n","t","i","o","n">>,
                  <<"p","o","w","e","r","f","u","l">> >>

\* C10, amended: "uses" is no member of STOPWORDS (use and using are), so the
\* scenario sentence yields transformers, model, uses, attention, powerful:
\* only the, based and are are dropped.
ScenarioYieldsFiveKeywords ==
  ScenarioCalled =>
    keywords = << <<"t","r","a","n","s","f","o","r","m","e","r","s">>,
                  <<"m","o","d","e","l">>,
                  <<"u","s","e","s">>,
                  <<"a","t","t","e","n","t","i","o","n">>,
                  <<"p","o","w","e","r","f","u","l">> >>

\* C10 witness: extract_keywords has returned for the scenario sentence with the
\* default top_n, and "uses" is among the keywords.
ScenarioReached ==
  /\ ScenarioCalled
  /\ \E i \in 1..Len(keywords) : keywords[i] = <<"u","s","e","s">>


(***************************************************************************)
(* Claims about transform_paper, read off all_items: the items of the      *)
(* k-th paper are the stretch of all_items that follows the items of the   *)
(* papers before it.                                                       *)
(***************************************************************************)
SeqToSet(q) == {q[i] : i \in 1..Len(q)}

NoRepeats(q) == \A i, j \in 1..Len(q) : i # j => q[i] # q[j]

\* K: the number of keywords of a paper, at most DefaultTopN
KeywordCount(paper) ==
  Min(DefaultTopN, Cardinality(Significant(TokensOf(paper.abstract))))

ExpectedItemCount(paper) ==
  1 + Len(paper.categories) + Len(paper.authors) + KeywordCount(paper)

RECURSIVE ExpectedOffset(_)
ExpectedOffset(k) ==
  IF k <= 1 THEN 0 ELSE ExpectedOffset(k - 1) + ExpectedItemCount(papers[k - 1])

ItemsOfPaper(k) ==
  SubSeq(all_items, ExpectedOffset(k) + 1, ExpectedOffset(k + 1))

IsById(item) == item.PK = item.SK

IsByCategory(item) == Take(item.PK, Len(CATEGORY)) = CATEGORY

IsByAuthor(item) == "GSI1PK" \in DOMAIN item

IsByKeyword(item) == "GSI3PK" \in DOMAIN item

HowMany(q, P(_)) == Cardinality({i \in 1..Len(q) : P(q[i])})

\* the counts of C1: 1 + |categories| + |authors| + K items, of the four kinds
ItemCountsAsClaimed(k) ==
  LET paper == papers[k]
      items == ItemsOfPaper(k)
  IN  /\ Len(items) = ExpectedItemCount(paper)
      /\ KeywordCount(paper) <= 10
      /\ \A i \in 1..Len(items) : items[i].arxiv_id = paper.arxiv_id
      /\ HowMany(items, IsById) = 1
      /\ HowMany(items, IsByCategory) = Len(paper.categories)
      /\ HowMany(items, IsByAuthor) = Len(paper.authors)
      /\ HowMany(items, IsByKeyword) = KeywordCount(paper)
      /\ \A i \in 1..Len(items) :
           /\ IsById(items[i]) => items[i].PK = ARXIV \o paper.arxiv_id
           /\ Cardinality({P \in {"id", "cat", "author", "kw"} :
                \/ P = "id" /\ IsById(items[i])
                \/ P = "cat" /\ IsByCategory(items[i])
                \/ P = "author" /\ IsByAuthor(items[i])
                \/ P = "kw" /\ IsByKeyword(items[i])}) = 1

\* each category, author and keyword of the paper is the partition key of
\* exactly one of its items
EachValueInOneItem(k) ==
  LET paper == papers[k]
      items == ItemsOfPaper(k)
  IN  /\ \A c \in SeqToSet(paper.categories) :
           HowMany(items, LAMBDA it : it.PK = CATEGORY \o c) = 1
      /\ \A a \in SeqToSet(paper.authors) :
           HowMany(items, LAMBDA it : IsByAuthor(it) /\ it.GSI1PK = AUTHOR \o a) = 1
      /\ \A w \in Significant(TokensOf(paper.abstract)) :
           HowMany(items, LAMBDA it : IsByKeyword(it) /\ it.GSI3PK = KEYWORD \o w) = 1

Transformed == pc \in {"writing", "done"}

PutOnExistingKeyIsNoOp ==
  [][pc = "writing" /\ sent < Len(all_items)
       => error' = "none" /\ \A i \in table : i \in table']_vars

\* the number of items one ingestion of the paper leaves in an empty table
ItemsOfOneIngestion(paper) ==
  Cardinality({Key(it) : it \in SeqToSet(transform_paper(paper))})

\* the paper's own items have distinct keys: ingested once, it raises nothing
IngestsAlone(paper) ==
  /\ ~RaisesKeyError(paper)
  /\ ItemsOfOneIngestion(paper) = Len(transform_paper(paper))

\* C3 as stated: a record (one that is ingested without error) listed twice in
\* one load raises no error and leaves as many items as its first ingestion;
\* the loader run again on the same input ends as the first run did, with as
\* many items in the table.
IngestingTwiceIsIdempotent ==
  /\ Len(papers) = 2 /\ papers[1] = papers[2] /\ IngestsAlone(papers[1])
       => /\ error # "ValidationException"
          /\ pc = "done" => Cardinality(table) = ItemsOfOneIngestion(papers[1])
  /\ rerun /\ first_run.ended = "done"
       => /\ error = "none"
          /\ pc = "done" => Cardinality(table) = first_run.items

\* C11 as stated: a record whose id holds the key delimiter "#" is rejected when
\* its keys are built, so no item of such a record is produced or stored.
DelimiterIdIsRejected ==
  \A i \in SeqToSet(all_items) \cup table : ~Contains(i.arxiv_id, Hash)

WellFormed(paper) == ~RaisesKeyError(paper) /\ IngestsAlone(paper)

\* C12 as stated: when the load has ended and a record of the input failed to
\* transform, the items of every well-formed record of the input are stored.
BadRecordDoesNotAbortBatch ==
  pc \in {"done", "failed"} /\ (\E k \in 1..Len(papers) : RaisesKeyError(papers[k]))
    => \A k \in 1..Len(papers) :
         WellFormed(papers[k])
           => \A i \in SeqToSet(transform_paper(papers[k])) : i \in table

StoredCountIsReportedCount ==
  pc = "done" =>
    /\ ~HasDuplicateKeys(all_items)
    /\ Cardinality(table) = report.total_items

(***************************************************************************)
(* Claims about the queries (Spec).  resp.out holds what the query         *)
(* function returned for the arguments in resp.                            *)
(***************************************************************************)
DateOf(x) == Take(x.published, 10)

\* x comes before y in the descending order of <date>#<id>
Newer(x, y) ==
  \/ StrLess(DateOf(y), DateOf(x))
  \/ DateOf(y) = DateOf(x) /\ StrLess(y.arxiv_id, x.arxiv_id)

SameRecord(x, y) == DateOf(x) = DateOf(y) /\ x.arxiv_id = y.arxiv_id

\* the int the query function passes as Limit
LimitOf(r) == IF r.impl = "api" THEN ParseInt(r.limit).value ELSE r.limit

GoodLimit(r) == (r.impl = "api" => ParseInt(r.limit).ok) /\ LimitOf(r) >= 1

\* what the function hands out for a stored item
Shown(r, i) == IF r.impl = "api" THEN i ELSE Projection(i)

\* q lists the first min(limit, n) items of part, newest first
IsNewestFirstCut(q, part, r) ==
  /\ Len(q) = Min(LimitOf(r), Cardinality(part))
  /\ \A k \in 1..Len(q) : \E i \in part : q[k] = Shown(r, i)
  /\ \A j, k \in 1..Len(q) : j < k => Newer(q[j], q[k])
  /\ \A i \in part :
       (\A k \in 1..Len(q) : ~SameRecord(q[k], i)) => \A k \in 1..Len(q) : Newer(q[k], i)

CategoryPartition(category) == {i \in table : i.PK = CATEGORY \o category}

\* C4: for a limit >= 1, recent-in-category (query_recent_papers and
\* query_recent_in_category) returns the first min(limit, n) items of partition
\* CATEGORY#c in descending order of publication date, equal dates by
\* descending id.
RecentIsNewestFirst ==
  resp.op = "recent" /\ GoodLimit(resp) =>
    /\ resp.out.status = "ok"
    /\ IsNewestFirstCut(resp.out.items, CategoryPartition(resp.category), resp)

\* C4 witness: two papers of one day in the category and a limit of 1: the one
\* with the greater id is returned
RecentTieCutReached ==
  /\ resp.op = "recent"
  /\ resp.out.status = "ok"
  /\ LimitOf(resp) = 1
  /\ Len(resp.out.items) = 1
  /\ \E i, j \in CategoryPartition(resp.category) : i # j /\ DateOf(i) = DateOf(j)

\* C5 as stated: the date-range query returns exactly the records of partition
\* CATEGORY#cat whose date d has d1 <= d <= d2, whatever their ids, in ascending
\* sort-key order, also for d1 = d2 and (no record) for d1 > d2.
DateRangeIsExact ==
  resp.op = "daterange" =>
    LET q      == resp.out.items
        wanted == {i \in CategoryPartition(resp.category) :
                     /\ StrLeq(resp.start_date, DateOf(i))
                     /\ StrLeq(DateOf(i), resp.end_date)}
    IN  /\ Len(q) = Cardinality(wanted)
        /\ \A i \in wanted : \E k \in 1..Len(q) : q[k] = Projection(i)
        /\ \A j, k \in 1..Len(q) : j < k => Newer(q[k], q[j])

IdsOf(q) == {q[k].arxiv_id : k \in 1..Len(q)}

\* C6 as stated: when the index query fails and the scan is used,
\* query_papers_by_author returns the ids the index query returns for the same
\* author and limit.
AuthorFallbackSameIds ==
  resp.op = "author" /\ GoodLimit(resp) /\ resp.gsi_fails =>
    IdsOf(resp.out.items) =
      IdsOf(author_index_query(table, resp.name, resp.limit, FALSE).items)

\* C7 as stated: a limit that is 0, negative or no integer is rejected with an
\* error before any query or scan is sent, in recent-in-category, by-author and
\* by-keyword.
BadLimitIsRejected ==
  resp.op \in {"recent", "author", "keyword"} /\ ~GoodLimit(resp) =>
    resp.out.status = "error" /\ resp.out.calls = <<>>

KeywordPartition(keyword) ==
  {i \in table : "GSI3PK" \in DOMAIN i /\ i.GSI3PK = KEYWORD \o Lower(keyword)}

\* C8 as stated: for a limit >= 1 the by-keyword query on the index path, in
\* query_papers.py and in api_server.py, returns the first min(limit, n) items
\* of partition KEYWORD#<keyword lower-cased> in descending <date>#<id> order.
KeywordIsNewestFirst ==
  resp.op = "keyword" /\ GoodLimit(resp) /\ ~resp.gsi_fails =>
    /\ resp.out.status = "ok"
    /\ IsNewestFirstCut(resp.out.items, KeywordPartition(resp.keyword), resp)

\* the papers of the input that have the id
PapersWithId(id) == {k \in 1..Len(papers) : papers[k].arxiv_id = id}

\* the by-id item of the last paper of the input that has the id
CanonicalItem(id) ==
  LET last == papers[CHOOSE k \in PapersWithId(id) : \A j \in PapersWithId(id) : j <= k]
  IN  paper_id_item(last, extract_keywords(last.abstract, DefaultTopN))

EveryRequestIsAnswered ==
  resp.op # "none" /\ resp.impl = "api" =>
    /\ resp.http.raised = "none"
    /\ resp.http.code \in {200, 400, 404, 500}
    /\ resp.op = "missing" => resp.http.code = 400 /\ resp.out.calls = <<>>
    /\ resp.out.status = "error" => resp.http.code = 500

\* C16 as stated: when the index query fails and the scan is used,
\* search_papers_by_keyword returns the ids the KeywordIndex query returns for
\* the same keyword and limit.
KeywordFallbackSameIds ==
  resp.op = "keyword" /\ resp.impl = "api" /\ GoodLimit(resp) /\ resp.gsi_fails =>
    IdsOf(resp.out.items) =
      IdsOf(keyword_index_query(table, resp.keyword, resp.limit, FALSE).items)

=============================================================================
